---- MODULE Spec2Model ----
(***************************************************************************)
(* Model of script/fetch_script.py and script/utils.py: one invocation of  *)
(* fetch_all_leaderboards, which sweeps 3 regions x 2 game modes, pages    *)
(* through the remote leaderboard API for each combination, bulk-inserts   *)
(* every page into the players table and writes one row to scraping_logs.  *)
(*                                                                         *)
(* The remote API, the database and the wall clock are the environment:    *)
(* every response shape the code distinguishes, the outcome of every       *)
(* insert and the passing of time are nondeterministic choices.            *)
(***************************************************************************)
EXTENDS Integers, Sequences, FiniteSets

(***************************************************************************)
(* Bounds of the model.                                                    *)
(***************************************************************************)
\* Largest totalPages value the remote API reports; it reports at least 1.
MaxPages == 3
\* Number of rows on a page that carries rows.
PageRows == 1
\* Length of an hour in clock ticks.
HourLen == 2

(***************************************************************************)
(* Program constants.                                                      *)
(***************************************************************************)
regions == <<"EU", "US", "AP">>
game_modes == <<"battlegrounds", "battlegroundsduo">>

\* The nested loops of lines 171-172, flattened in iteration order.
Combos ==
  [i \in 1..(Len(regions) * Len(game_modes)) |->
     [region |-> regions[((i - 1) \div Len(game_modes)) + 1],
      game_mode |-> game_modes[((i - 1) % Len(game_modes)) + 1]]]

total_count == Len(regions) * Len(game_modes)

\* Python's None where an integer is expected.
NoTimestamp == -1

\* The wall clock is followed until the first tick of the next hour.
MaxNow == HourLen

(***************************************************************************)
(* Pure helpers.                                                           *)
(***************************************************************************)
\* datetime.now().replace(minute=0, second=0, microsecond=0)
get_hour_aligned_timestamp(t) == t - (t % HourLen)

\* time.sleep or a request: the wall clock stays within the tick or moves on.
Elapse(t) == {t} \cup {u \in {t + 1} : u <= MaxNow}

\* What fetch_single_page can hand back for page 1: None, a falsy JSON
\* value, an object without 'leaderboard', an object whose 'leaderboard' is
\* null, and a leaderboard object with or without 'rows' and 'pagination'
\* (pagination = 0 stands for an absent pagination block).
FirstResponses ==
  [kind : {"none", "empty", "nolb", "lbnull"}, pagination : {0}, n : {0}]
    \cup [kind : {"norows"}, pagination : 0..MaxPages, n : {0}]
    \cup [kind : {"rows"}, pagination : 0..MaxPages, n : {PageRows}]

\* The same for a later page, whose pagination block the code never reads.
LaterResponses ==
  [kind : {"none", "empty", "nolb", "lbnull", "norows"}, pagination : {0}, n : {0}]
    \cup [kind : {"rows"}, pagination : {0}, n : {PageRows}]

\* `not page_data`
NoData(resp) == resp.kind \in {"none", "empty"}

\* 'leaderboard' in d and 'x' in d['leaderboard'] raises TypeError when
\* d['leaderboard'] is null.
Raises(resp) == resp.kind = "lbnull"

\* 'leaderboard' in d and 'rows' in d['leaderboard']
HasRows(resp) == resp.kind = "rows"

\* total_pages of lines 88-91; a pagination block without totalPages gives
\* 1, like pagination = 1.
TotalPages(resp) ==
  IF resp.kind \in {"norows", "rows"} /\ resp.pagination # 0
  THEN resp.pagination
  ELSE 1

\* Lines 76-77: the timestamp a call stamps its records with.
StampForFresh(given, t) == get_hour_aligned_timestamp(t)
StampFor(given, t) ==
  IF given = NoTimestamp THEN get_hour_aligned_timestamp(t) ELSE given

\* range(2, total_pages + 1): the last page the loop visits.
LastPageShort(tp) == tp - 1
LastPage(tp) == tp

\* `continue` at line 118: the loop goes on with the next page.
AfterSkipBreak(p, tp) == tp + 1
AfterSkip(p, tp) == p + 1

\* Lines 171-188: the sweep goes on with the next combination whatever the
\* call returned.
NextComboStopOnFailure(i, success) == IF success THEN i + 1 ELSE total_count + 1
NextCombo(i, success) == i + 1

\* Lines 183-186: append when absent.
AddOnce(list, x) ==
  IF \E k \in 1..Len(list) : list[k] = x THEN list ELSE Append(list, x)

\* Line 191
SweepStatusAny(sc) == IF sc > 0 THEN "success" ELSE "partial_success"
SweepStatus(sc) == IF sc = total_count THEN "success" ELSE "partial_success"

\* Line 192: None, or the count summary.
SweepErrorMsg(sc) == IF sc = total_count THEN <<>> ELSE <<"Only", sc, total_count>>

\* Lines 221-222: a failure while logging the error is swallowed.
SecondaryFailurePropagates == "crashed"
SecondaryFailure == "done"

(***************************************************************************)
(* State.                                                                  *)
(***************************************************************************)
VARIABLES
  credentials,            \* SUPABASE_URL and SUPABASE_SERVICE_KEY are set
  now,                    \* the wall clock
  pc,                     \* position in fetch_all_leaderboards
  aligned_timestamp,      \* line 159
  success_count,          \* line 162
  total_players_scraped,  \* line 164
  processed_regions,      \* line 165
  processed_game_modes,   \* line 166
  idx,                    \* position of the nested loops in Combos
  page,                   \* loop variable of line 109
  total_pages,            \* line 88
  total_players_saved,    \* line 99
  result,                 \* what fetch_and_save_full_leaderboard returned
  exc,                    \* message of the exception caught at line 207
  ret,                    \* what fetch_all_leaderboards returned, as text
  players,                \* players table: scraped_at -> number of rows
  scraping_logs,          \* scraping_logs table
  \* history of the run
  insert_log,             \* scraped_at of every record passed to an insert
  attempted,              \* combinations fetch_and_save was called for
  results,                \* success flag returned per combination
  fetched,                \* pages fetch_single_page was called for, this call
  first_skipped,          \* first later page of this call that yielded
                          \* no data (0: none)
  fatal_at,               \* page whose handling raised, this call (0: none)
  call_inserted,          \* rows this call inserted into players
  first_resp              \* the response to page 1 of this call

vars ==
  <<credentials, now, pc, aligned_timestamp, success_count,
    total_players_scraped, processed_regions, processed_game_modes, idx,
    page, total_pages, total_players_saved, result, exc, ret, players,
    scraping_logs, insert_log, attempted, results, fetched,
    first_skipped, fatal_at, call_inserted, first_resp>>

sweepVars ==
  <<aligned_timestamp, success_count, total_players_scraped,
    processed_regions, processed_game_modes, idx, attempted, results>>

Stamps == {get_hour_aligned_timestamp(t) : t \in 0..MaxNow}

NoResult == [returned |-> FALSE, success |-> FALSE, count |-> 0]
NoResp == [kind |-> "unset", pagination |-> 0, n |-> 0]

Init ==
  /\ credentials \in BOOLEAN
  /\ now \in 0..(HourLen - 1)
  /\ pc = "start"
  /\ aligned_timestamp = NoTimestamp
  /\ success_count = 0
  /\ total_players_scraped = 0
  /\ processed_regions = <<>>
  /\ processed_game_modes = <<>>
  /\ idx = 1
  /\ page = 0
  /\ total_pages = 0
  /\ total_players_saved = 0
  /\ result = NoResult
  /\ exc = <<>>
  /\ ret = "unset"
  /\ players = [s \in Stamps |-> 0]
  /\ scraping_logs = <<>>
  /\ insert_log = {}
  /\ attempted = <<>>
  /\ results = <<>>
  /\ fetched = <<>>
  /\ first_skipped = 0
  /\ fatal_at = 0
  /\ call_inserted = 0
  /\ first_resp = NoResp

(***************************************************************************)
(* save_players_to_database, lines 43-66: one bulk insert of n records     *)
(* stamped with `stamp`; ok is whether the insert call succeeded. The      *)
(* table is kept as the number of rows per scraped_at.                     *)
(***************************************************************************)
SavePlayers(n, stamp, ok) ==
  /\ insert_log' = insert_log \cup {stamp}
  /\ players' = IF ok THEN [players EXCEPT ![stamp] = @ + n] ELSE players
  /\ call_inserted' = IF ok THEN call_inserted + n ELSE call_inserted

NoSave == UNCHANGED <<insert_log, players, call_inserted>>

(***************************************************************************)
(* log_scraping_run, lines 135-151: the entry takes a fresh timestamp; a   *)
(* failing insert is caught and printed.                                   *)
(***************************************************************************)
LogEntry(total, regs, modes, status, msg) ==
  [run_time |-> get_hour_aligned_timestamp(now),
   players_scraped |-> total,
   regions_processed |-> regs,
   game_modes_processed |-> modes,
   status |-> status,
   error_message |-> msg]

(***************************************************************************)
(* get_supabase_client, utils.py lines 11-24: raises ValueError unless     *)
(* both environment variables are set.                                     *)
(***************************************************************************)
ClientAvailable == credentials

(***************************************************************************)
(* fetch_all_leaderboards, lines 155-169: take the run timestamp, zero the *)
(* accumulators, obtain the database handle.                               *)
(***************************************************************************)
Start ==
  /\ pc = "start"
  /\ aligned_timestamp' = get_hour_aligned_timestamp(now)
  /\ IF ClientAvailable
     THEN pc' = "call" /\ exc' = <<>>
     ELSE pc' = "except" /\ exc' = <<"ValueError">>
  /\ UNCHANGED <<credentials, now, success_count, total_players_scraped,
                 processed_regions, processed_game_modes, idx, page,
                 total_pages, total_players_saved, result, ret, players,
                 scraping_logs, insert_log, attempted, results, fetched,
                 first_skipped, fatal_at, call_inserted, first_resp>>

(***************************************************************************)
(* fetch_and_save_full_leaderboard, lines 70-106: obtain the handle, fetch *)
(* page 1, read the pagination block, save page 1.                         *)
(***************************************************************************)
FetchFirstPage ==
  /\ pc = "call"
  /\ idx <= total_count
  /\ attempted' = Append(attempted, idx)
  /\ fetched' = IF ClientAvailable THEN <<1>> ELSE <<>>
  /\ first_skipped' = 0
  /\ now' \in Elapse(now)
  /\ \E resp \in FirstResponses, ok \in BOOLEAN :
       /\ first_resp' = IF ClientAvailable THEN resp ELSE NoResp
       /\ IF ~ClientAvailable
          THEN \* line 72 raises, caught at lines 131-133
               /\ result' = [returned |-> TRUE, success |-> FALSE, count |-> 0]
               /\ pc' = "ret"
               /\ fatal_at' = 0
               /\ UNCHANGED <<page, total_pages, total_players_saved>>
               /\ NoSave
          ELSE IF NoData(resp)
          THEN \* lines 83-85
               /\ result' = [returned |-> TRUE, success |-> FALSE, count |-> 0]
               /\ pc' = "ret"
               /\ fatal_at' = 0
               /\ UNCHANGED <<page, total_pages, total_players_saved>>
               /\ NoSave
          ELSE IF Raises(resp)
          THEN \* line 89 raises, caught at lines 131-133
               /\ result' = [returned |-> TRUE, success |-> FALSE, count |-> 0]
               /\ pc' = "ret"
               /\ fatal_at' = 1
               /\ UNCHANGED <<page, total_pages, total_players_saved>>
               /\ NoSave
          ELSE /\ total_pages' = TotalPages(resp)
               /\ page' = 2
               /\ pc' = "loop"
               /\ fatal_at' = 0
               /\ result' = NoResult
               /\ IF HasRows(resp)
                  THEN /\ SavePlayers(resp.n, StampFor(aligned_timestamp, now), ok)
                       /\ total_players_saved' = IF ok THEN resp.n ELSE 0
                  ELSE /\ NoSave
                       /\ total_players_saved' = 0
  /\ UNCHANGED <<credentials, aligned_timestamp, success_count,
                 total_players_scraped, processed_regions,
                 processed_game_modes, idx, exc, ret, scraping_logs,
                 results>>

(***************************************************************************)
(* One iteration of the loop of lines 109-126: sleep, fetch the page, skip *)
(* it or save its rows.                                                    *)
(***************************************************************************)
FetchNextPage ==
  /\ pc = "loop"
  /\ page <= LastPage(total_pages)
  /\ now' \in Elapse(now)
  /\ fetched' = Append(fetched, page)
  /\ \E resp \in LaterResponses, ok \in BOOLEAN :
       IF NoData(resp)
       THEN \* lines 116-118
            /\ first_skipped' = IF first_skipped = 0 THEN page ELSE first_skipped
            /\ page' = AfterSkip(page, total_pages)
            /\ NoSave
            /\ UNCHANGED <<pc, result, fatal_at, total_players_saved>>
       ELSE IF Raises(resp)
       THEN \* line 120 raises, caught at lines 131-133
            /\ result' = [returned |-> TRUE, success |-> FALSE, count |-> 0]
            /\ pc' = "ret"
            /\ fatal_at' = page
            /\ NoSave
            /\ UNCHANGED <<page, first_skipped, total_players_saved>>
       ELSE /\ page' = page + 1
            /\ UNCHANGED <<pc, result, fatal_at, first_skipped>>
            /\ IF HasRows(resp)
               THEN /\ SavePlayers(resp.n, StampFor(aligned_timestamp, now'), ok)
                    /\ total_players_saved' =
                         IF ok THEN total_players_saved + resp.n
                         ELSE total_players_saved
               ELSE /\ NoSave
                    /\ UNCHANGED total_players_saved
  /\ UNCHANGED <<credentials, total_pages, exc, ret, scraping_logs, first_resp>>
  /\ UNCHANGED sweepVars

(***************************************************************************)
(* Lines 128-129: the loop is over, the call returns its count.            *)
(***************************************************************************)
FinishPages ==
  /\ pc = "loop"
  /\ page > LastPage(total_pages)
  /\ result' = [returned |-> TRUE, success |-> TRUE, count |-> total_players_saved]
  /\ pc' = "ret"
  /\ UNCHANGED <<credentials, now, page, total_pages, total_players_saved,
                 exc, ret, players, scraping_logs, insert_log, fetched,
                 first_skipped, fatal_at, call_inserted, first_resp>>
  /\ UNCHANGED sweepVars

(***************************************************************************)
(* Lines 174-188: take the call's result into the accumulators, sleep, go  *)
(* on with the next combination.                                           *)
(***************************************************************************)
CombinationDone ==
  /\ pc = "ret"
  /\ results' = Append(results, result.success)
  /\ IF result.success
     THEN /\ success_count' = success_count + 1
          /\ total_players_scraped' = total_players_scraped + result.count
          /\ processed_regions' = AddOnce(processed_regions, Combos[idx].region)
          /\ processed_game_modes' =
               AddOnce(processed_game_modes, Combos[idx].game_mode)
     ELSE UNCHANGED <<success_count, total_players_scraped, processed_regions,
                      processed_game_modes>>
  /\ now' \in Elapse(now)
  /\ idx' = NextCombo(idx, result.success)
  /\ pc' = IF idx' > total_count THEN "log" ELSE "call"
  /\ result' = NoResult
  /\ page' = 0
  /\ total_pages' = 0
  /\ total_players_saved' = 0
  /\ fetched' = <<>>
  /\ first_skipped' = 0
  /\ fatal_at' = 0
  /\ call_inserted' = 0
  /\ first_resp' = NoResp
  /\ UNCHANGED <<credentials, aligned_timestamp, exc, ret, players,
                 scraping_logs, insert_log, attempted>>

(***************************************************************************)
(* Lines 190-205: write the run's log entry and return.                    *)
(***************************************************************************)
LogResult ==
  /\ pc = "log"
  /\ \E ok \in BOOLEAN :
       scraping_logs' =
         IF ok
         THEN Append(scraping_logs,
                     LogEntry(total_players_scraped, processed_regions,
                              processed_game_modes, SweepStatus(success_count),
                              SweepErrorMsg(success_count)))
         ELSE scraping_logs
  /\ ret' = IF success_count = total_count THEN "True" ELSE "False"
  /\ pc' = "done"
  /\ UNCHANGED <<credentials, now, page, total_pages, total_players_saved,
                 result, exc, players, insert_log, fetched, first_skipped, fatal_at,
                 call_inserted, first_resp>>
  /\ UNCHANGED sweepVars

(***************************************************************************)
(* Lines 207-224: obtain a handle again and log the error; whatever fails  *)
(* here is swallowed; return False.                                        *)
(***************************************************************************)
HandleError ==
  /\ pc = "except"
  /\ \E ok \in BOOLEAN :
       IF ClientAvailable
       THEN /\ scraping_logs' =
                 IF ok
                 THEN Append(scraping_logs,
                             LogEntry(total_players_scraped, processed_regions,
                                      processed_game_modes, "error", exc))
                 ELSE scraping_logs
            /\ pc' = "done"
       ELSE /\ scraping_logs' = scraping_logs
            /\ pc' = SecondaryFailure
  /\ ret' = IF pc' = "done" THEN "False" ELSE ret
  /\ UNCHANGED <<credentials, now, page, total_pages, total_players_saved,
                 result, exc, players, insert_log, fetched, first_skipped, fatal_at,
                 call_inserted, first_resp>>
  /\ UNCHANGED sweepVars

Next ==
  \/ Start
  \/ FetchFirstPage
  \/ FetchNextPage
  \/ FinishPages
  \/ CombinationDone
  \/ LogResult
  \/ HandleError

Spec == Init /\ [][Next]_vars

\* The interpreter runs the function to its end: a step that can be taken
\* is eventually taken.
FairSpec == Spec /\ WF_vars(Next)

(***************************************************************************)
(* Helpers of the properties.                                              *)
(***************************************************************************)
Range(seq) == {seq[k] : k \in 1..Len(seq)}

Iota(k) == [i \in 1..k |-> i]

NoDuplicates(seq) ==
  \A i, j \in 1..Len(seq) : i # j => seq[i] # seq[j]

SucceededCombos == {i \in 1..Len(results) : results[i]}

AllSucceeded == Len(results) = total_count /\ \A i \in 1..total_count : results[i]

\* Entries log_scraping_run wrote on the normal path / on the error path.
SweepEntries == {e \in Range(scraping_logs) : e.status # "error"}

\* totalPages as page 1 announces it: its pagination block, or 1 without.
AnnouncedPages ==
  IF first_resp.kind \in {"norows", "rows"} /\ first_resp.pagination # 0
  THEN first_resp.pagination
  ELSE 1

FirstPageObtained == first_resp.kind \notin {"unset", "none", "empty"}

Returned == pc = "ret"

RowsInPlayers ==
  LET Sum[S \in SUBSET Stamps] ==
        IF S = {} THEN 0
        ELSE LET s == CHOOSE x \in S : TRUE IN players[s] + Sum[S \ {s}]
  IN Sum[Stamps]

(***************************************************************************)
(* C1. Every record passed to a players insert during one sweep carries    *)
(* the same scraped_at: the hour-aligned timestamp taken once, when the    *)
(* sweep starts. The clock moving on, past the hour, changes nothing.      *)
(***************************************************************************)
C1_OneRunTimestamp ==
  /\ [](insert_log \subseteq {aligned_timestamp})
  /\ [][/\ pc = "start" => aligned_timestamp' = get_hour_aligned_timestamp(now)
        /\ pc # "start" => aligned_timestamp' = aligned_timestamp]_vars

\* A later combination inserted its first page after the hour had turned.
C1_Witness ==
  /\ pc = "loop"
  /\ idx > 1
  /\ fetched = <<1>>
  /\ call_inserted > 0
  /\ get_hour_aligned_timestamp(now) # aligned_timestamp
  /\ insert_log = {aligned_timestamp}

(***************************************************************************)
(* C2. The entry written after the sweep loop: status "success" with a     *)
(* null error_message exactly when all 6 combinations succeeded, else      *)
(* "partial_success" with an error_message; regions_processed and          *)
(* game_modes_processed hold exactly the regions and modes of the          *)
(* combinations that succeeded, each once.                                 *)
(***************************************************************************)
C2_RunLogEntry ==
  \A e \in SweepEntries :
    /\ (e.status = "success" /\ e.error_message = <<>>) <=> AllSucceeded
    /\ ~AllSucceeded => e.status = "partial_success" /\ e.error_message # <<>>
    /\ Range(e.regions_processed) = {Combos[i].region : i \in SucceededCombos}
    /\ Range(e.game_modes_processed) = {Combos[i].game_mode : i \in SucceededCombos}
    /\ NoDuplicates(e.regions_processed)
    /\ NoDuplicates(e.game_modes_processed)

\* 4 of 6 succeeded; AP appears in failed combinations only.
C2_Witness ==
  \E e \in SweepEntries :
    /\ e.status = "partial_success"
    /\ SucceededCombos = {1, 2, 3, 4}
    /\ e.regions_processed = <<"EU", "US">>

C5_FirstPageAbsent ==
  /\ [](Returned /\ NoData(first_resp) =>
          /\ result = [returned |-> TRUE, success |-> FALSE, count |-> 0]
          /\ fetched = <<1>>
          /\ call_inserted = 0)
  /\ [](attempted = Iota(Len(attempted)))
  /\ [](pc = "log" => attempted = Iota(total_count))
  /\ [][pc = "call" /\ NoData(first_resp') =>
          players' = players /\ insert_log' = insert_log]_vars
  /\ [][Returned /\ NoData(first_resp) =>
          /\ processed_regions' = processed_regions
          /\ processed_game_modes' = processed_game_modes
          /\ success_count' = success_count
          /\ total_players_scraped' = total_players_scraped
          /\ idx' = idx + 1
          /\ pc' = IF idx < total_count THEN "call" ELSE "log"]_vars

\* The first combination failed, the sweep went on to the last one, whose
\* page 1 yields no data either.
C5_Witness ==
  /\ Returned
  /\ NoData(first_resp)
  /\ idx = total_count
  /\ attempted = Iota(total_count)
  /\ ~results[1]
  /\ results[2]

(***************************************************************************)
(* C6. A sweep that ends on the error path has written one entry with      *)
(* status "error", the exception's message and the accumulators.           *)
(***************************************************************************)
C6_ErrorEntryWritten ==
  pc = "done" /\ exc # <<>> =>
    \E e \in Range(scraping_logs) :
      /\ e.status = "error"
      /\ e.error_message = exc
      /\ e.players_scraped = total_players_scraped
      /\ e.regions_processed = processed_regions
      /\ e.game_modes_processed = processed_game_modes

(***************************************************************************)
(* C7. The run_time of the run's log entry is the run timestamp, the       *)
(* scraped_at of the records of the same sweep.                            *)
(***************************************************************************)
C7_RunTimeIsRunTimestamp ==
  \A e \in Range(scraping_logs) : e.run_time = aligned_timestamp

(***************************************************************************)
(* C8. The count a call returns is the number of rows it inserted, and     *)
(* players_scraped of the log entry is the number of rows the sweep        *)
(* inserted.                                                               *)
(***************************************************************************)
C8_CountIsRowsInserted ==
  /\ Returned => result.count = call_inserted
  /\ \A e \in Range(scraping_logs) : e.players_scraped = RowsInPlayers

(***************************************************************************)
(* C9. A page-1 response without the leaderboard key or without its rows   *)
(* key is handled as absent first-page data: the call returns (False, 0).  *)
(***************************************************************************)
C9_MissingKeysAreNoData ==
  Returned /\ first_resp.kind \in {"nolb", "norows"} =>
    result = [returned |-> TRUE, success |-> FALSE, count |-> 0]

(***************************************************************************)
(* C10. The sweep always ends by returning a boolean and no exception      *)
(* leaves it: no step is ever stuck before the return, every step uses up  *)
(* a bounded measure, True is returned only when all 6 combinations        *)
(* succeeded and False on the error path.                                  *)
(***************************************************************************)
StepsPerCombo == MaxPages + 2

Rank ==
  CASE pc = "done" -> 0
    [] pc = "crashed" -> 0
    [] pc \in {"log", "except"} -> 1
    [] pc = "ret" -> (total_count - idx) * StepsPerCombo + 2
    [] pc = "loop" -> (total_count - idx) * StepsPerCombo + 3 + (MaxPages + 1 - page)
    [] pc = "call" -> (total_count - idx + 1) * StepsPerCombo + 1
    [] pc = "start" -> total_count * StepsPerCombo + 2

C10_AlwaysReturnsBoolean ==
  /\ [](pc # "crashed")
  /\ [](pc = "done" \/ ENABLED Next)
  /\ [](Rank >= 0)
  /\ [][Rank' < Rank]_vars
  /\ [](pc # "done" => ret = "unset")
  /\ [](pc = "done" =>
          /\ ret \in {"True", "False"}
          /\ ret = "True" => AllSucceeded
          /\ exc # <<>> => ret = "False")
  /\ <>(pc = "done")

\* The handle is missing, the error logging fails too, False is returned.
C10_Witness ==
  /\ pc = "done"
  /\ ~credentials
  /\ exc # <<>>
  /\ scraping_logs = <<>>
  /\ ret = "False"

====
